---- MODULE Spec2Model ----
(***************************************************************************)
(* Authentication profile failover core: the eligibility oracle and the   *)
(* usage-stats updater of the auth-profile store, the locked store they   *)
(* write through, and the infinite-retry driver (withInfiniteRetry,       *)
(* sleepWithAbort).  Times are milliseconds since epoch, as in the source. *)
(***************************************************************************)
EXTENDS Integers, Sequences, FiniteSets, TLC

\* ---------------------------------------------------------------- bounds
\* Loop iterations of withInfiniteRetry explored (the source has no budget).
MaxAttempts == 4
\* Date.now() when a behaviour starts.
StartTime == 1000
\* Calls of markUsed / markFailure / clearCooldown made by the concurrent
\* tasks of one behaviour, and by the single task of a sequential one.
MaxOps == 2
MaxSeqOps == 2
\* Longest run of consecutive failures of one profile.
MaxStreak == 5
\* Largest error count the backoff calculators are called with directly.

MaxErrorCount == 8
\* Calls made on one profile while watching its cooldown.
MaxCooldownCalls == 3

\* ------------------------------------------------------ program constants
DefaultWaitMs == 60000
CooldownBaseMs == 60000
CooldownMaxExponent == 3
BillingMinBaseMs == 60000
BillingMaxExponent == 10
DefaultBillingBackoffHours == 5
DefaultBillingMaxHours == 24
DefaultFailureWindowHours == 24
HourMs == 60 * 60 * 1000

Profiles == {"p1", "p2"}
Models == {"m1", "m2"}
Reasons == {"auth", "format", "rate_limit", "billing", "timeout", "unknown"}
Credential == [type |-> "api_key", provider |-> "anthropic"]
AllProfiles == [p \in Profiles |-> Credential]

\* ------------------------------------------- objects with optional fields
\* A JavaScript object is a function from the keys it has; a key holding
\* undefined is modelled as a key that is absent.
Has(obj, key) == key \in DOMAIN obj
With(obj, key, val) == [k \in DOMAIN obj \cup {key} |-> IF k = key THEN val ELSE obj[k]]
Without(obj, key) == [k \in DOMAIN obj \ {key} |-> obj[k]]
EmptyObj == [k \in {} |-> 0]
\* `obj.key ?? dflt`
GetOr(obj, key, dflt) == IF Has(obj, key) THEN obj[key] ELSE dflt

\* `number | null`: the empty set is null, {v} is the number v.
Null == {}
Some(v) == {v}
ValueOf(m) == CHOOSE v \in m : TRUE
\* An object with the one key when m is a value, with none when it is Null;
\* and {...b, ...a}.
OptField(key, m) == IF m = Null THEN EmptyObj ELSE [k \in {key} |-> ValueOf(m)]
Merge(a, b) == [k \in DOMAIN a \cup DOMAIN b |-> IF k \in DOMAIN a THEN a[k] ELSE b[k]]

SetMax(S) == CHOOSE x \in S : \A y \in S : y <= x
SetMin(S) == CHOOSE x \in S : \A y \in S : x <= y
Max(a, b) == IF a >= b THEN a ELSE b
Min(a, b) == IF a <= b THEN a ELSE b

RECURSIVE Pow(_, _)
Pow(b, e) == IF e <= 0 THEN 1 ELSE b * Pow(b, e - 1)

\* ------------------------------------------------------ eligibility oracle
\* store.usageStats?.[profileId]
StatsOf(store, profileId) ==
  IF Has(store, "usageStats") /\ profileId \in DOMAIN store.usageStats
  THEN Some(store.usageStats[profileId]) ELSE Null

\* stats.modelStats?.[modelId]
ModelStatsOf(stats, modelId) ==
  IF Has(stats, "modelStats") /\ modelId \in DOMAIN stats.modelStats
  THEN Some(stats.modelStats[modelId]) ELSE Null

resolveProfileUnusableUntil(stats, modelId) ==
  LET base == {stats[f] : f \in {"cooldownUntil", "disabledUntil"} \cap DOMAIN stats}
      kept == {v \in base : v > 0}
      ms == ModelStatsOf(stats, modelId)
      pushed == IF modelId # "" /\ ms # Null
                   /\ Has(ValueOf(ms), "cooldownUntil")
                   /\ ValueOf(ms).cooldownUntil # 0
                THEN {ValueOf(ms).cooldownUntil} ELSE {}
      values == kept \cup pushed
  IN IF values = {} THEN Null ELSE Some(SetMax(values))

isProfileInCooldown(store, profileId, modelId, clock) ==
  LET stats == StatsOf(store, profileId) IN
  IF stats = Null THEN FALSE
  ELSE LET unusableUntil == resolveProfileUnusableUntil(ValueOf(stats), modelId) IN
       IF unusableUntil # Null /\ ValueOf(unusableUntil) # 0
       THEN clock < ValueOf(unusableUntil) ELSE FALSE

resolveProfileUnusableUntilForDisplay(store, profileId, modelId) ==
  LET stats == StatsOf(store, profileId) IN
  IF stats = Null THEN Null ELSE resolveProfileUnusableUntil(ValueOf(stats), modelId)

\* ------------------------------------------------- infinite-retry: wait
\* The for-loop of calculateMinimumWaitMs from candidate i on, minUnusableUntil
\* being the running minimum.
RECURSIVE minWaitFrom(_, _, _, _, _, _)
minWaitFrom(store, profileCandidates, modelId, clock, i, minUnusableUntil) ==
  IF i > Len(profileCandidates)
  THEN IF minUnusableUntil = Null THEN 0
       ELSE Max(0, ValueOf(minUnusableUntil) - clock)
  ELSE LET profileId == profileCandidates[i] IN
       IF profileId = ""
       THEN minWaitFrom(store, profileCandidates, modelId, clock, i + 1, minUnusableUntil)
       ELSE IF ~isProfileInCooldown(store, profileId, modelId, clock) THEN 0
       ELSE LET u == resolveProfileUnusableUntilForDisplay(store, profileId, modelId)
                next == IF u # Null /\ ValueOf(u) # 0 /\ ValueOf(u) > clock
                           /\ (minUnusableUntil = Null
                               \/ ValueOf(u) < ValueOf(minUnusableUntil))
                        THEN u ELSE minUnusableUntil
            IN minWaitFrom(store, profileCandidates, modelId, clock, i + 1, next)

calculateMinimumWaitMs(store, profileCandidates, modelId, clock) ==
  minWaitFrom(store, profileCandidates, modelId, clock, 1, Null)

\* ------------------------------------------------------ cooldown calculator
\* calculateAuthProfileCooldownMs without the one-hour cap.
calculateAuthProfileCooldownMsUncapped(errorCount) ==
  LET normalized == Max(1, errorCount) IN
  CooldownBaseMs * Pow(5, Min(normalized - 1, CooldownMaxExponent))
calculateAuthProfileCooldownMs(errorCount) ==
  LET normalized == Max(1, errorCount) IN
  Min(HourMs, CooldownBaseMs * Pow(5, Min(normalized - 1, CooldownMaxExponent)))

\* The billing calculator with maxMs taken as given, not raised to baseMs.
calculateAuthProfileBillingDisableMsUnclamped(errorCount, baseMsIn, maxMsIn) ==
  LET normalized == Max(1, errorCount)
      baseMs == Max(BillingMinBaseMs, baseMsIn)
      exponent == Min(normalized - 1, BillingMaxExponent)
      raw == baseMs * Pow(2, exponent)
  IN Min(maxMsIn, raw)
calculateAuthProfileBillingDisableMsWithConfig(errorCount, baseMsIn, maxMsIn) ==
  LET normalized == Max(1, errorCount)
      baseMs == Max(BillingMinBaseMs, baseMsIn)
      maxMs == Max(baseMs, maxMsIn)
      exponent == Min(normalized - 1, BillingMaxExponent)
      raw == baseMs * Pow(2, exponent)
  IN Min(maxMs, raw)

\* normalizeProviderId of model-selection.js: lower-cases the provider id.
normalizeProviderId(id) == IF id = "Anthropic" THEN "anthropic" ELSE id

\* typeof value === "number" && Number.isFinite(value) && value > 0 ? value : fallback
resolveHours(value, fallback) ==
  IF value # Null /\ ValueOf(value) > 0 THEN ValueOf(value) ELSE fallback

\* resolveAuthCooldownConfig with the failure window scaled as seconds.
resolveAuthCooldownConfigWindowInSeconds(cfg, providerId) ==
  LET cooldowns == IF cfg = Null THEN EmptyObj ELSE ValueOf(cfg)
      Opt(key) == IF Has(cooldowns, key) THEN Some(cooldowns[key]) ELSE Null
      map == GetOr(cooldowns, "billingBackoffHoursByProvider", EmptyObj)
      hits == {k \in DOMAIN map : normalizeProviderId(k) = providerId}
      billingOverride == IF hits = {} THEN Null ELSE Some(map[CHOOSE k \in hits : TRUE])
      billingBackoffHours ==
        resolveHours(IF billingOverride # Null THEN billingOverride
                     ELSE Opt("billingBackoffHours"), DefaultBillingBackoffHours)
      billingMaxHours == resolveHours(Opt("billingMaxHours"), DefaultBillingMaxHours)
      failureWindowHours ==
        resolveHours(Opt("failureWindowHours"), DefaultFailureWindowHours)
  IN [billingBackoffMs |-> billingBackoffHours * HourMs,
      billingMaxMs |-> billingMaxHours * HourMs,
      failureWindowMs |-> failureWindowHours * 1000]
\* cfg is params.cfg?.auth?.cooldowns: an object with optional keys, or Null.
resolveAuthCooldownConfig(cfg, providerId) ==
  LET cooldowns == IF cfg = Null THEN EmptyObj ELSE ValueOf(cfg)
      Opt(key) == IF Has(cooldowns, key) THEN Some(cooldowns[key]) ELSE Null
      map == GetOr(cooldowns, "billingBackoffHoursByProvider", EmptyObj)
      hits == {k \in DOMAIN map : normalizeProviderId(k) = providerId}
      billingOverride == IF hits = {} THEN Null ELSE Some(map[CHOOSE k \in hits : TRUE])
      billingBackoffHours ==
        resolveHours(IF billingOverride # Null THEN billingOverride
                     ELSE Opt("billingBackoffHours"), DefaultBillingBackoffHours)
      billingMaxHours == resolveHours(Opt("billingMaxHours"), DefaultBillingMaxHours)
      failureWindowHours ==
        resolveHours(Opt("failureWindowHours"), DefaultFailureWindowHours)
  IN [billingBackoffMs |-> billingBackoffHours * HourMs,
      billingMaxMs |-> billingMaxHours * HourMs,
      failureWindowMs |-> failureWindowHours * HourMs]

\* ------------------------------------------------------ usage-stats updater
\* retryAfterMs is Null (not supplied) or Some(ms); modelId "" is not supplied.
\* -- the billing branch: always profile-wide
billingFailure(existing, clock, windowExpired, cfgResolved) ==
  LET before == IF windowExpired THEN EmptyObj
                ELSE GetOr(existing, "failureCounts", EmptyObj)
      failureCounts == With(before, "billing", GetOr(before, "billing", 0) + 1)
      billingCount == failureCounts.billing
      backoffMs == calculateAuthProfileBillingDisableMsWithConfig(
                     billingCount, cfgResolved.billingBackoffMs, cfgResolved.billingMaxMs)
  IN With(With(With(With(existing,
       "disabledUntil", clock + backoffMs),
       "disabledReason", "billing"),
       "failureCounts", failureCounts),
       "lastFailureAt", clock)

\* -- the model-specific cooldown branch
\* -- the model-specific branch taking a hint of 0 for no hint
modelFailureZeroHintIgnored(existing, clock, modelId, retryAfterMs) ==
  LET allModelStats == GetOr(existing, "modelStats", EmptyObj)
      modelStats == GetOr(allModelStats, modelId, EmptyObj)
      modelErrorCount == GetOr(modelStats, "errorCount", 0) + 1
      backoffMs == IF retryAfterMs # Null /\ ValueOf(retryAfterMs) # 0
                   THEN ValueOf(retryAfterMs)
                   ELSE calculateAuthProfileCooldownMs(modelErrorCount)
      entry == With(With(With(modelStats,
                 "errorCount", modelErrorCount),
                 "cooldownUntil", clock + backoffMs),
                 "lastFailureAt", clock)
  IN With(existing, "modelStats", With(allModelStats, modelId, entry))
modelFailureAlsoProfileWide(existing, clock, modelId, retryAfterMs) ==
  LET allModelStats == GetOr(existing, "modelStats", EmptyObj)
      modelStats == GetOr(allModelStats, modelId, EmptyObj)
      modelErrorCount == GetOr(modelStats, "errorCount", 0) + 1
      backoffMs == IF retryAfterMs # Null THEN ValueOf(retryAfterMs)
                   ELSE calculateAuthProfileCooldownMs(modelErrorCount)
      entry == With(With(With(modelStats,
                 "errorCount", modelErrorCount),
                 "cooldownUntil", clock + backoffMs),
                 "lastFailureAt", clock)
  IN With(With(existing, "modelStats", With(allModelStats, modelId, entry)),
          "lastFailureAt", clock)
modelFailure(existing, clock, modelId, retryAfterMs) ==
  LET allModelStats == GetOr(existing, "modelStats", EmptyObj)
      modelStats == GetOr(allModelStats, modelId, EmptyObj)
      modelErrorCount == GetOr(modelStats, "errorCount", 0) + 1
      backoffMs == IF retryAfterMs # Null THEN ValueOf(retryAfterMs)
                   ELSE calculateAuthProfileCooldownMs(modelErrorCount)
      entry == With(With(With(modelStats,
                 "errorCount", modelErrorCount),
                 "cooldownUntil", clock + backoffMs),
                 "lastFailureAt", clock)
  IN With(existing, "modelStats", With(allModelStats, modelId, entry))

\* -- the profile-wide branch counting on from the prior errorCount always
\* -- the profile-wide branch computing the backoff from the prior count
profileFailureBackoffFromPrior(existing, clock, windowExpired, retryAfterMs) ==
  LET baseErrorCount == IF windowExpired THEN 0 ELSE GetOr(existing, "errorCount", 0)
      nextErrorCount == baseErrorCount + 1
      backoffMs == IF retryAfterMs # Null THEN ValueOf(retryAfterMs)
                   ELSE calculateAuthProfileCooldownMs(baseErrorCount)
  IN With(With(With(existing,
       "errorCount", nextErrorCount),
       "cooldownUntil", clock + backoffMs),
       "lastFailureAt", clock)
profileFailureNoWindow(existing, clock, windowExpired, retryAfterMs) ==
  LET baseErrorCount == GetOr(existing, "errorCount", 0)
      nextErrorCount == baseErrorCount + 1
      backoffMs == IF retryAfterMs # Null THEN ValueOf(retryAfterMs)
                   ELSE calculateAuthProfileCooldownMs(nextErrorCount)
  IN With(With(With(existing,
       "errorCount", nextErrorCount),
       "cooldownUntil", clock + backoffMs),
       "lastFailureAt", clock)
\* -- the profile-wide cooldown branch
profileFailure(existing, clock, windowExpired, retryAfterMs) ==
  LET baseErrorCount == IF windowExpired THEN 0 ELSE GetOr(existing, "errorCount", 0)
      nextErrorCount == baseErrorCount + 1
      backoffMs == IF retryAfterMs # Null THEN ValueOf(retryAfterMs)
                   ELSE calculateAuthProfileCooldownMs(nextErrorCount)
  IN With(With(With(existing,
       "errorCount", nextErrorCount),
       "cooldownUntil", clock + backoffMs),
       "lastFailureAt", clock)

computeNextProfileUsageStats(existing, clock, reason, cfgResolved, modelId, retryAfterMs) ==
  LET windowMs == cfgResolved.failureWindowMs
      windowExpired == /\ Has(existing, "lastFailureAt")
                       /\ existing.lastFailureAt > 0
                       /\ clock - existing.lastFailureAt > windowMs
      isModelSpecific == modelId # "" /\ reason \in {"rate_limit", "timeout"}
  IN IF reason = "billing"
     THEN billingFailure(existing, clock, windowExpired, cfgResolved)
     ELSE IF isModelSpecific
     THEN modelFailure(existing, clock, modelId, retryAfterMs)
     ELSE profileFailure(existing, clock, windowExpired, retryAfterMs)

\* newStats of markAuthProfileUsed, with disabledUntil left in place.
usedStatsKeepingDisabled(existing, modelId, clock) ==
  LET cleared == Without(Without(Without(existing,
                   "cooldownUntil"), "disabledReason"), "failureCounts")
      newStats == With(With(cleared, "lastUsed", clock), "errorCount", 0)
  IN IF modelId # ""
     THEN With(newStats, "modelStats",
               With(GetOr(newStats, "modelStats", EmptyObj), modelId,
                    [lastUsed |-> clock, errorCount |-> 0]))
     ELSE newStats
\* newStats of markAuthProfileUsed.
usedStats(existing, modelId, clock) ==
  LET cleared == Without(Without(Without(Without(existing,
                   "cooldownUntil"), "disabledUntil"), "disabledReason"), "failureCounts")
      newStats == With(With(cleared, "lastUsed", clock), "errorCount", 0)
  IN IF modelId # ""
     THEN With(newStats, "modelStats",
               With(GetOr(newStats, "modelStats", EmptyObj), modelId,
                    [lastUsed |-> clock, errorCount |-> 0]))
     ELSE newStats

\* clearAuthProfileCooldown resetting the whole entry to a reduced shape.
clearedStatsReduced(stats, modelId) ==
  IF modelId # ""
  THEN IF ModelStatsOf(stats, modelId) # Null
       THEN With(stats, "modelStats",
                 With(stats.modelStats, modelId, [errorCount |-> 0]))
       ELSE stats
  ELSE With(Without(Without(Without(stats, "cooldownUntil"), "disabledUntil"),
                    "disabledReason"), "errorCount", 0)
\* The stats clearAuthProfileCooldown leaves for a profile that has stats.
clearedStats(stats, modelId) ==
  IF modelId # ""
  THEN IF ModelStatsOf(stats, modelId) # Null
       THEN With(stats, "modelStats",
                 With(stats.modelStats, modelId,
                      With(Without(stats.modelStats[modelId], "cooldownUntil"),
                           "errorCount", 0)))
       ELSE stats
  ELSE With(Without(stats, "cooldownUntil"), "errorCount", 0)

\* store.usageStats = store.usageStats ?? {}; store.usageStats[profileId] = stats
PutStats(store, profileId, stats) ==
  With(store, "usageStats",
       With(GetOr(store, "usageStats", EmptyObj), profileId, stats))
\* store.usageStats[profileId] ?? {}, after usageStats ?? {}
ExistingStats(store, profileId) ==
  LET st == StatsOf(store, profileId) IN IF st = Null THEN EmptyObj ELSE ValueOf(st)

\* ------------------------------------------------------------- variables
VARIABLES
  now,          \* Date.now()
  \* -- withInfiniteRetry / sleepWithAbort
  params,       \* the params object of withInfiniteRetry (optional keys)
  pc,           \* where the driver is
  attempt,      \* let attempt
  aborted,      \* abortSignal.aborted
  executeCount, \* invocations of params.execute so far
  caught,       \* the error caught from the last execute
  outcome,      \* how the driver's promise settled
  waitMs,       \* const waitMs of the current catch block
  timerPending, \* the setTimeout of sleepWithAbort has not fired or been cleared
  listenerOn,   \* abortHandler is registered on the signal
  sleepState,   \* the promise of sleepWithAbort
  sleepCalls,   \* calls of sleepWithAbort so far
  quotaLog,     \* onQuotaExhaustion calls and log.warn lines, in order
  abortedAt,    \* pc at which the abort signal fired ("" before)
  execsAtAbort, \* executeCount when the abort signal fired
  plan,         \* scripted execute: failures before the success (-1: free)
  \* -- the auth-profile store and the tasks calling markUsed/markFailure/clear
  disk,         \* the persisted AuthProfileStore document
  cfg,          \* cfg.auth.cooldowns of the process (Null: not configured)
  lock,         \* holder of the exclusive store lock, or "free"
  mem,          \* per task: the caller's in-memory store handle
  tpc,          \* per task: where its call is
  top,          \* per task: the call it is making
  fresh,        \* per task: the store re-read under the lock
  updated,      \* per task: what updateAuthProfileStoreWithLock returned
  tclock,       \* per task: Date.now() its update used
  tpath,        \* per task: how its last call ended
  calls,        \* per task: calls made so far
  disk0,        \* the persisted document when the behaviour started
  deleted,      \* profiles removed from the file by external tooling
  \* -- direct calls of the exported pure functions
  fnIn,         \* the function called last and its arguments
  fnOut         \* what it returned

retryVars == <<params, pc, attempt, aborted, executeCount, caught, outcome, waitMs,
               timerPending, listenerOn, sleepState, sleepCalls, quotaLog,
               abortedAt, execsAtAbort, plan>>
storeVars == <<disk, cfg, lock, mem, tpc, top, fresh, updated, tclock, tpath, calls,
               disk0, deleted>>
fnVars == <<fnIn, fnOut>>
vars == <<now, retryVars, storeVars, fnVars>>

\* --------------------------------------------------- infinite-retry driver
Terminal == {"returned", "thrown"}
NoError == [name |-> "none", failoverReason |-> "none"]
\* What execute can throw: a FailoverError with a reason, or another error
\* (which may carry a failoverReason property without being a FailoverError).
Errors == [name : {"FailoverError", "Error"}, failoverReason : Reasons]
CancelError(msg) == [kind |-> "cancel", message |-> msg]
Rethrown(error) == [kind |-> "error", error |-> error]
Returned(v) == [kind |-> "result", value |-> v]
Pending == [kind |-> "pending"]

\* Duration of one execute call.
ExecDurations == {0, 1000}

\* error instanceof FailoverError && (reason === "rate_limit" || "timeout")
QualifiesAnyError(error) == error.failoverReason \in {"rate_limit", "timeout"}
Qualifies(error) ==
  /\ error.name = "FailoverError"
  /\ error.failoverReason \in {"rate_limit", "timeout"}

\* abortSignal?.aborted
SignalAborted == Has(params, "abortSignal") /\ aborted

\* authStore && profileCandidates && modelId ? calculateMinimumWaitMs(..) : 60 * 1000
WaitAlwaysDefault(p, clock) == DefaultWaitMs
ComputeWaitMs(p, clock) ==
  IF Has(p, "authStore") /\ Has(p, "profileCandidates")
     /\ Has(p, "modelId") /\ p.modelId # ""
  THEN calculateMinimumWaitMs(p.authStore, p.profileCandidates, p.modelId, clock)
  ELSE DefaultWaitMs

\* Math.ceil(waitMs / 1000)
CeilSec(ms) == (ms + 999) \div 1000

\* The onQuotaExhaustion call, or the log.warn line when there is no callback.
NotificationZeroBased(p, w, n) ==
  IF Has(p, "onQuotaExhaustion")
  THEN [via |-> "onQuotaExhaustion", provider |-> GetOr(p, "provider", "unknown"),
        model |-> GetOr(p, "modelId", "unknown"), waitMs |-> w, attempt |-> n - 1]
  ELSE [via |-> "log.warn", waitSec |-> CeilSec(w), attempt |-> n - 1]
Notification(p, w, n) ==
  IF Has(p, "onQuotaExhaustion")
  THEN [via |-> "onQuotaExhaustion", provider |-> GetOr(p, "provider", "unknown"),
        model |-> GetOr(p, "modelId", "unknown"), waitMs |-> w, attempt |-> n]
  ELSE [via |-> "log.warn", waitSec |-> CeilSec(w), attempt |-> n]

\* Top of the while loop: attempt++, the abort check, and the call of execute.
LoopTopNoAbortCheck ==
  /\ pc = "top"
  /\ attempt < MaxAttempts
  /\ attempt' = attempt + 1
  /\ caught' = NoError
  /\ pc' = "executing"
  /\ executeCount' = executeCount + 1
  /\ UNCHANGED <<now, params, aborted, outcome, waitMs, timerPending, listenerOn,
                 sleepState, sleepCalls, quotaLog, abortedAt, execsAtAbort, plan, storeVars, fnVars>>
LoopTopWithBudget ==
  /\ pc = "top"
  /\ attempt < MaxAttempts
  /\ attempt' = attempt + 1
  /\ caught' = NoError
  /\ IF SignalAborted
     THEN /\ pc' = "thrown"
          /\ outcome' = CancelError("Task aborted by user")
          /\ UNCHANGED executeCount
     ELSE IF attempt' > 2
     THEN /\ pc' = "thrown"
          /\ outcome' = Rethrown(caught)
          /\ UNCHANGED executeCount
     ELSE /\ pc' = "executing"
          /\ executeCount' = executeCount + 1
          /\ UNCHANGED outcome
  /\ UNCHANGED <<now, params, aborted, waitMs, timerPending, listenerOn,
                 sleepState, sleepCalls, quotaLog, abortedAt, execsAtAbort, plan, storeVars, fnVars>>
LoopTop ==
  /\ pc = "top"
  /\ attempt < MaxAttempts
  /\ attempt' = attempt + 1
  /\ caught' = NoError
  /\ IF SignalAborted
     THEN /\ pc' = "thrown"
          /\ outcome' = CancelError("Task aborted by user")
          /\ UNCHANGED executeCount
     ELSE /\ pc' = "executing"
          /\ executeCount' = executeCount + 1
          /\ UNCHANGED outcome
  /\ UNCHANGED <<now, params, aborted, waitMs, timerPending, listenerOn,
                 sleepState, sleepCalls, quotaLog, abortedAt, execsAtAbort, plan, storeVars, fnVars>>

\* `return await execute()` when execute fulfils.
ExecuteReturns(d) ==
  /\ pc = "executing"
  /\ now' = now + d
  /\ pc' = "returned"
  /\ outcome' = Returned("ok")
  /\ UNCHANGED <<params, attempt, aborted, executeCount, caught, waitMs, timerPending,
                 listenerOn, sleepState, sleepCalls, quotaLog, abortedAt, execsAtAbort,
                 plan, storeVars, fnVars>>

\* The catch block, up to the call of sleepWithAbort, when execute rejects
\* with `error`.
ExecuteThrows(error, d) ==
  /\ pc = "executing"
  /\ now' = now + d
  /\ caught' = error
  /\ IF SignalAborted
     THEN /\ pc' = "thrown"
          /\ outcome' = Rethrown(error)
          /\ UNCHANGED <<waitMs, quotaLog>>
     ELSE IF Qualifies(error)
     THEN /\ waitMs' = ComputeWaitMs(params, now')
          /\ quotaLog' = Append(quotaLog, Notification(params, waitMs', attempt))
          /\ pc' = "sleepCall"
          /\ UNCHANGED outcome
     ELSE /\ pc' = "thrown"
          /\ outcome' = Rethrown(error)
          /\ UNCHANGED <<waitMs, quotaLog>>
  /\ UNCHANGED <<params, attempt, aborted, executeCount, timerPending, listenerOn,
                 sleepState, sleepCalls, abortedAt, execsAtAbort, plan, storeVars, fnVars>>

\* The executor of the promise sleepWithAbort returns.
SleepEnterNoEntryCheck ==
  /\ pc = "sleepCall"
  /\ sleepCalls' = sleepCalls + 1
  /\ timerPending' = TRUE
  /\ listenerOn' = (Has(params, "abortSignal") /\ ~aborted)
  /\ sleepState' = "pending"
  /\ pc' = "sleeping"
  /\ UNCHANGED <<now, params, attempt, aborted, executeCount, caught, waitMs, quotaLog,
                 abortedAt, execsAtAbort, plan, outcome, storeVars, fnVars>>
SleepEnter ==
  /\ pc = "sleepCall"
  /\ sleepCalls' = sleepCalls + 1
  /\ IF SignalAborted
     THEN /\ sleepState' = "rejected"
          /\ pc' = "thrown"
          /\ outcome' = CancelError("Task aborted")
          /\ UNCHANGED <<timerPending, listenerOn>>
     ELSE /\ timerPending' = TRUE
          /\ listenerOn' = Has(params, "abortSignal")
          /\ sleepState' = "pending"
          /\ pc' = "sleeping"
          /\ UNCHANGED outcome
  /\ UNCHANGED <<now, params, attempt, aborted, executeCount, caught, waitMs, quotaLog,
                 abortedAt, execsAtAbort, plan, storeVars, fnVars>>

\* The setTimeout callback resolving without cleanup().
TimerFiresWithoutCleanup ==
  /\ timerPending
  /\ now' = now + waitMs
  /\ timerPending' = FALSE
  /\ listenerOn' = listenerOn
  /\ IF sleepState = "pending"
     THEN sleepState' = "resolved" /\ pc' = "woken"
     ELSE UNCHANGED <<sleepState, pc>>
  /\ UNCHANGED <<params, attempt, aborted, executeCount, caught, outcome, waitMs,
                 sleepCalls, quotaLog, abortedAt, execsAtAbort, plan, storeVars, fnVars>>
\* The setTimeout callback: cleanup(), resolve().
TimerFires ==
  /\ timerPending
  /\ now' = now + waitMs
  /\ timerPending' = FALSE
  /\ listenerOn' = FALSE
  /\ IF sleepState = "pending"
     THEN sleepState' = "resolved" /\ pc' = "woken"
     ELSE UNCHANGED <<sleepState, pc>>
  /\ UNCHANGED <<params, attempt, aborted, executeCount, caught, outcome, waitMs,
                 sleepCalls, quotaLog, abortedAt, execsAtAbort, plan, storeVars, fnVars>>

\* `await sleepWithAbort(..)` resumes; `continue`.
Resume ==
  /\ pc = "woken"
  /\ pc' = "top"
  /\ UNCHANGED <<now, params, attempt, aborted, executeCount, caught, outcome, waitMs,
                 timerPending, listenerOn, sleepState, sleepCalls, quotaLog, abortedAt,
                 execsAtAbort, plan, storeVars, fnVars>>

\* The caller aborts the signal; the signal runs abortHandler when it is
\* registered: cleanup(), reject().
Abort ==
  /\ Has(params, "abortSignal")
  /\ ~aborted
  /\ pc \notin Terminal
  /\ aborted' = TRUE
  /\ abortedAt' = pc
  /\ execsAtAbort' = executeCount
  /\ IF listenerOn
     THEN /\ timerPending' = FALSE
          /\ listenerOn' = FALSE
          /\ IF sleepState = "pending"
             THEN /\ sleepState' = "rejected"
                  /\ pc' = "thrown"
                  /\ outcome' = CancelError("Task aborted during cooldown wait")
             ELSE UNCHANGED <<sleepState, pc, outcome>>
     ELSE UNCHANGED <<timerPending, listenerOn, sleepState, pc, outcome>>
  /\ UNCHANGED <<now, params, attempt, executeCount, caught, waitMs, sleepCalls,
                 quotaLog, plan, storeVars, fnVars>>

\* ------------------------------------------------- store: calls and tasks
Tasks == {"t1", "t2"}
NoOp == [kind |-> "none", profileId |-> "", modelId |-> "", reason |-> "",
         retryAfterMs |-> Null]
UsedOp(p, m) == [kind |-> "used", profileId |-> p, modelId |-> m, reason |-> "",
                 retryAfterMs |-> Null]
FailureOp(p, r, m, ra) == [kind |-> "failure", profileId |-> p, modelId |-> m,
                           reason |-> r, retryAfterMs |-> ra]
ClearOp(p, m) == [kind |-> "clear", profileId |-> p, modelId |-> m, reason |-> "",
                  retryAfterMs |-> Null]

\* A profile id that no store holds.
Missing == "p3"
\* The calls a single task tries in sequence: every kind of call on p1, with
\* and without a model and a retry-after hint (0 and 5000), two calls on p2, and one call of each kind for a missing profile.
OpChoices ==
  {UsedOp("p1", m) : m \in {"", "m1"}}
    \cup {ClearOp("p1", m) : m \in {"", "m1"}}
    \cup {FailureOp("p1", "rate_limit", m, Null) : m \in {"", "m1"}}
    \cup {FailureOp("p1", "timeout", "m2", Some(0)), FailureOp("p1", "billing", "m1", Some(5000)),
          FailureOp("p1", "timeout", "", Some(0)), FailureOp("p1", "rate_limit", "", Some(5000)),
          FailureOp("p1", "rate_limit", "m1", Some(5000)),
          FailureOp("p1", "auth", "m1", Null), FailureOp("p1", "unknown", "", Some(5000))}
    \cup {UsedOp("p2", ""), FailureOp("p2", "format", "", Null)}
    \cup {UsedOp(Missing, "m1"), FailureOp(Missing, "rate_limit", "", Null),
          ClearOp(Missing, "")}
\* The calls concurrent tasks try.
ConcurrentOps ==
  {UsedOp("p1", ""), ClearOp("p1", ""), FailureOp("p1", "rate_limit", "", Null),
   FailureOp("p1", "timeout", "m1", Null), FailureOp("p1", "billing", "", Null),
   FailureOp("p2", "auth", "", Null)}

\* Time that passes before a call: half a minute, or just over a day.
Elapsed == {30000, 24 * HourMs + 1}
ConcurrentElapsed == {30000}
\* The profile external tooling may remove.
Deletable == {"p1"}

\* -- the updater closures passed to updateAuthProfileStoreWithLock; Null is
\* `return false`, Some(store) the mutated freshStore after `return true`.
\* The updater of markAuthProfileUsed without its existence check.
usedUpdaterUnchecked(freshStore, op, clock) ==
  Some(PutStats(freshStore, op.profileId,
                usedStats(ExistingStats(freshStore, op.profileId), op.modelId, clock)))
usedUpdater(freshStore, op, clock) ==
  IF op.profileId \notin DOMAIN freshStore.profiles THEN Null
  ELSE Some(PutStats(freshStore, op.profileId,
                     usedStats(ExistingStats(freshStore, op.profileId), op.modelId, clock)))

failureUpdater(freshStore, op, clock, config) ==
  IF op.profileId \notin DOMAIN freshStore.profiles THEN Null
  ELSE LET profile == freshStore.profiles[op.profileId]
           providerKey == normalizeProviderId(profile.provider)
           cfgResolved == resolveAuthCooldownConfig(config, providerKey)
       IN Some(PutStats(freshStore, op.profileId,
                 computeNextProfileUsageStats(ExistingStats(freshStore, op.profileId),
                   clock, op.reason, cfgResolved, op.modelId, op.retryAfterMs)))

clearUpdater(freshStore, op) ==
  IF StatsOf(freshStore, op.profileId) = Null THEN Null
  ELSE Some(PutStats(freshStore, op.profileId,
                     clearedStats(freshStore.usageStats[op.profileId], op.modelId)))

\* The updater reading the caller's in-memory stats instead of freshStore's.
UpdaterOnStaleStats(t, freshStore) ==
  LET op == top[t]
      stale == IF StatsOf(mem[t], op.profileId) = Null THEN freshStore
               ELSE PutStats(freshStore, op.profileId, mem[t].usageStats[op.profileId])
  IN IF op.kind = "used" THEN usedUpdater(stale, op, now)
     ELSE IF op.kind = "failure" THEN failureUpdater(stale, op, now, cfg)
     ELSE clearUpdater(stale, op)
\* The updater of task t's call, run on the store read under the lock.
RunUpdater(t, freshStore) ==
  LET op == top[t] IN
  IF op.kind = "used" THEN usedUpdater(freshStore, op, now)
  ELSE IF op.kind = "failure" THEN failureUpdater(freshStore, op, now, cfg)
  ELSE clearUpdater(freshStore, op)

\* -- the code after `if (updated) {..}`: Null is the early return, Some(store)
\* the in-memory store as mutated and handed to saveAuthProfileStore.
\* markAuthProfileUsed returning when the locked update came back empty.
usedFallbackSkipped(store, op, clock) == Null
usedFallback(store, op, clock) ==
  IF op.profileId \notin DOMAIN store.profiles THEN Null
  ELSE Some(PutStats(store, op.profileId,
                     usedStats(ExistingStats(store, op.profileId), op.modelId, clock)))

failureFallback(store, op, clock, config) ==
  IF op.profileId \notin DOMAIN store.profiles THEN Null
  ELSE LET providerKey == normalizeProviderId(store.profiles[op.profileId].provider)
           cfgResolved == resolveAuthCooldownConfig(config, providerKey)
       IN Some(PutStats(store, op.profileId,
                 computeNextProfileUsageStats(ExistingStats(store, op.profileId),
                   clock, op.reason, cfgResolved, op.modelId, op.retryAfterMs)))

clearFallback(store, op) ==
  IF StatsOf(store, op.profileId) = Null THEN Null
  ELSE Some(PutStats(store, op.profileId,
                     clearedStats(store.usageStats[op.profileId], op.modelId)))

RunFallback(t) ==
  LET op == top[t] IN
  IF op.kind = "used" THEN usedFallback(mem[t], op, now)
  ELSE IF op.kind = "failure" THEN failureFallback(mem[t], op, now, cfg)
  ELSE clearFallback(mem[t], op)

\* store.usageStats = updated.usageStats
CopyUsageStats(store, from) ==
  IF Has(from, "usageStats") THEN With(store, "usageStats", from.usageStats)
  ELSE Without(store, "usageStats")

OpsStarted == calls["t1"] + calls["t2"]

\* A task calls markAuthProfileUsed / markAuthProfileFailure /
\* clearAuthProfileCooldown, `elapsed` ms after the previous call.
Call(t, op, elapsed) ==
  /\ tpc[t] = "idle"
  /\ now' = now + elapsed
  /\ top' = [top EXCEPT ![t] = op]
  /\ calls' = [calls EXCEPT ![t] = @ + 1]
  /\ tpc' = [tpc EXCEPT ![t] = "waiting"]
  /\ tpath' = [tpath EXCEPT ![t] = ""]
  /\ updated' = [updated EXCEPT ![t] = Null]
  /\ UNCHANGED <<disk, cfg, lock, mem, fresh, tclock, disk0, deleted, retryVars, fnVars>>

\* updateAuthProfileStoreWithLock: take the exclusive lock, re-read the file.
Acquire(t) ==
  /\ tpc[t] = "waiting"
  /\ lock = "free"
  /\ lock' = t
  /\ fresh' = [fresh EXCEPT ![t] = disk]
  /\ tpc' = [tpc EXCEPT ![t] = "locked"]
  /\ UNCHANGED <<now, disk, cfg, mem, top, updated, tclock, tpath, calls, disk0, deleted,
                 retryVars, fnVars>>

\* updateAuthProfileStoreWithLock: run the updater on the fresh store, write
\* the file when it returns true, release the lock, resolve with the
\* post-update store or with nothing when the updater declined.
Commit(t) ==
  /\ tpc[t] = "locked"
  /\ lock = t
  /\ LET r == RunUpdater(t, fresh[t]) IN
       /\ updated' = [updated EXCEPT ![t] = r]
       /\ disk' = IF r # Null THEN ValueOf(r) ELSE disk
  /\ lock' = "free"
  /\ fresh' = [fresh EXCEPT ![t] = EmptyObj]
  /\ tclock' = [tclock EXCEPT ![t] = now]
  /\ tpc' = [tpc EXCEPT ![t] = "returned"]
  /\ UNCHANGED <<now, cfg, mem, top, tpath, calls, disk0, deleted, retryVars, fnVars>>

\* The caller after `await updateAuthProfileStoreWithLock(..)`: copy the
\* usage stats back, or return early, or mutate the in-memory store and
\* saveAuthProfileStore it (the whole document, outside the lock).
Finish(t) ==
  /\ tpc[t] = "returned"
  /\ IF updated[t] # Null
     THEN /\ mem' = [mem EXCEPT ![t] = CopyUsageStats(@, ValueOf(updated[t]))]
          /\ tpath' = [tpath EXCEPT ![t] = "locked"]
          /\ UNCHANGED <<disk, tclock>>
     ELSE LET f == RunFallback(t) IN
          IF f = Null
          THEN /\ tpath' = [tpath EXCEPT ![t] = "noop"]
               /\ UNCHANGED <<disk, mem, tclock>>
          ELSE /\ mem' = [mem EXCEPT ![t] = ValueOf(f)]
               /\ disk' = ValueOf(f)
               /\ tclock' = [tclock EXCEPT ![t] = now]
               /\ tpath' = [tpath EXCEPT ![t] = "fallback"]
  /\ updated' = [updated EXCEPT ![t] = Null]
  /\ tpc' = [tpc EXCEPT ![t] = "idle"]
  /\ UNCHANGED <<now, cfg, lock, top, fresh, calls, disk0, deleted, retryVars, fnVars>>

\* External tooling removes a profile and its stats from the file (the core
\* never prunes entries itself).
ExternalDelete(p) ==
  /\ lock = "free"
  /\ deleted = {}
  /\ p \in DOMAIN disk.profiles
  /\ deleted' = deleted \cup {p}
  /\ disk' = LET d == With(disk, "profiles", Without(disk.profiles, p)) IN
             IF Has(d, "usageStats")
             THEN With(d, "usageStats", Without(d.usageStats, p)) ELSE d
  /\ UNCHANGED <<now, cfg, lock, mem, tpc, top, fresh, updated, tclock, tpath, calls,
                 disk0, retryVars, fnVars>>

\* -- initial stores
BaseStore == [version |-> 1, profiles |-> AllProfiles]
DefaultResolved == resolveAuthCooldownConfig(Null, "anthropic")
\* p1 after two profile-wide failures, a timeout on m2 and a billing failure.
SeedStatsBusy ==
  LET a == computeNextProfileUsageStats(EmptyObj, StartTime - 900, "rate_limit",
                                        DefaultResolved, "", Null)
      b == computeNextProfileUsageStats(a, StartTime - 800, "auth", DefaultResolved, "", Null)
      c == computeNextProfileUsageStats(b, StartTime - 700, "timeout", DefaultResolved, "m2", Null)
  IN computeNextProfileUsageStats(c, StartTime - 600, "billing", DefaultResolved, "", Null)
SeedStores ==
  {BaseStore,
   PutStats(BaseStore, "p1", SeedStatsBusy),
   PutStats(PutStats(BaseStore, "p1", usedStats(EmptyObj, "m1", StartTime - 500)),
            "p2", SeedStatsBusy)}
CooldownConfigs ==
  {Null,
   Some([failureWindowHours |-> 1, billingBackoffHours |-> 2, billingMaxHours |-> 3,
         billingBackoffHoursByProvider |-> [Anthropic |-> 1]])}
\* The same, and a configuration that only lowers the maximum below the
\* default backoff.
BillingConfigs == CooldownConfigs \cup {Some([billingMaxHours |-> 3])}

StoreInitWith(stores, configs) ==
  /\ disk \in stores
  /\ disk0 = disk
  /\ cfg \in configs
  /\ lock = "free"
  /\ mem = [t \in Tasks |-> disk]
  /\ tpc = [t \in Tasks |-> "idle"]
  /\ top = [t \in Tasks |-> NoOp]
  /\ fresh = [t \in Tasks |-> EmptyObj]
  /\ updated = [t \in Tasks |-> Null]
  /\ tclock = [t \in Tasks |-> 0]
  /\ tpath = [t \in Tasks |-> ""]
  /\ calls = [t \in Tasks |-> 0]
  /\ deleted = {}

\* No pure function has been called directly.
NoCall == [fn |-> "none"]
FnIdle == fnIn = NoCall /\ fnOut = NoCall

\* ------------------------------------------- driver: initial states, specs

\* Usage stats a profile can have when the driver starts, as the updater
\* leaves them: a profile-wide failure with retryAfterMs 2000, an expired
\* one, a model-scoped failure on m1, a billing disable, a success.
StatsCoolingDown == [errorCount |-> 1, cooldownUntil |-> StartTime + 2000,
                     lastFailureAt |-> StartTime]
StatsCooledDown == [errorCount |-> 1, cooldownUntil |-> StartTime - 100,
                    lastFailureAt |-> StartTime - 600]
StatsModelCooling == [modelStats |-> [m1 |-> [errorCount |-> 1,
                                              cooldownUntil |-> StartTime + CooldownBaseMs,
                                              lastFailureAt |-> StartTime]]]
StatsDisabled == [disabledUntil |-> StartTime + DefaultBillingBackoffHours * HourMs,
                  disabledReason |-> "billing", failureCounts |-> [billing |-> 1],
                  lastFailureAt |-> StartTime]
StatsUsed == [lastUsed |-> StartTime - 100, errorCount |-> 0]

RetryUsageStats ==
  { [p1 |-> StatsCoolingDown],
    [p1 |-> StatsCoolingDown, p2 |-> StatsModelCooling],
    [p1 |-> StatsModelCooling, p2 |-> StatsCoolingDown],
    [p1 |-> StatsDisabled, p2 |-> StatsCooledDown],
    [p1 |-> StatsDisabled, p2 |-> StatsCoolingDown],
    [p1 |-> StatsUsed, p2 |-> StatsCoolingDown],
    [p2 |-> StatsModelCooling] }
RetryStores ==
  {[version |-> 1, profiles |-> AllProfiles]}
    \cup {[version |-> 1, profiles |-> AllProfiles, usageStats |-> u] : u \in RetryUsageStats}
CandidateChoices == {<<>>, <<"p1">>, <<"p1", "p2">>, <<"", "p2">>}

\* The optional keys a caller may pass, each present or not.
RetryParams ==
  LET Opt(key, vals) == {EmptyObj} \cup {With(EmptyObj, key, v) : v \in vals}
      Both(A, B) == {Merge(a, b) : a \in A, b \in B}
  IN Both(Opt("authStore", RetryStores),
       Both(Opt("profileCandidates", CandidateChoices),
         Both(Opt("modelId", {"m1", "m2"}),
           Both(Opt("abortSignal", {TRUE}),
             Both(Opt("onQuotaExhaustion", {TRUE}), Opt("provider", {"anthropic"}))))))

RetryInitWith(ps, plans) ==
  /\ now = StartTime
  /\ params \in ps
  /\ plan \in plans
  /\ pc = "top"
  /\ attempt = 0
  /\ aborted = FALSE
  /\ executeCount = 0
  /\ caught = NoError
  /\ outcome = Pending
  /\ waitMs = 0
  /\ timerPending = FALSE
  /\ listenerOn = FALSE
  /\ sleepState = "none"
  /\ sleepCalls = 0
  /\ quotaLog = <<>>
  /\ abortedAt = ""
  /\ execsAtAbort = 0

RetryInit ==
  /\ RetryInitWith(RetryParams, {-1})
  /\ StoreInitWith({BaseStore}, {Null})
  /\ FnIdle

RetryNext ==
  \/ LoopTop
  \/ \E d \in ExecDurations : ExecuteReturns(d)
  \/ \E error \in Errors, d \in ExecDurations : ExecuteThrows(error, d)
  \/ SleepEnter
  \/ TimerFires
  \/ Resume
  \/ Abort

RetrySpec == RetryInit /\ [][RetryNext]_vars

\* execute scripted: `plan` rate_limit/timeout failures, then a success; the
\* signal is never aborted; every timer fires and every continuation runs.
RetryLiveInit ==
  /\ RetryInitWith({p \in RetryParams : ~Has(p, "provider")}, 0 .. (MaxAttempts - 1))
  /\ StoreInitWith({BaseStore}, {Null})
  /\ FnIdle

RetryLiveNext ==
  \/ LoopTop
  \/ \E d \in ExecDurations : executeCount > plan /\ ExecuteReturns(d)
  \/ \E r \in {"rate_limit", "timeout"}, d \in ExecDurations :
       /\ executeCount <= plan
       /\ ExecuteThrows([name |-> "FailoverError", failoverReason |-> r], d)
  \/ SleepEnter
  \/ TimerFires
  \/ Resume

RetryLiveSpec == RetryLiveInit /\ [][RetryLiveNext]_vars /\ WF_vars(RetryLiveNext)

\* ------------------------------------------------ store: specification
Init ==
  /\ RetryInitWith({EmptyObj}, {-1})
  /\ StoreInitWith(SeedStores, {Null})
  /\ FnIdle

Next ==
  \/ \E t \in Tasks, op \in ConcurrentOps, elapsed \in ConcurrentElapsed :
       OpsStarted < MaxOps /\ Call(t, op, elapsed)
  \/ \E t \in Tasks : Acquire(t)
  \/ \E t \in Tasks : Commit(t)
  \/ \E t \in Tasks : Finish(t)
  \/ \E p \in Deletable : ExternalDelete(p)

Spec == Init /\ [][Next]_vars

\* One task making its calls one after the other.
SeqNext ==
  \/ \E op \in OpChoices, elapsed \in Elapsed :
       OpsStarted < MaxSeqOps /\ Call("t1", op, elapsed)
  \/ Acquire("t1")
  \/ Commit("t1")
  \/ Finish("t1")
  \/ \E p \in Deletable : ExternalDelete(p)

SeqInit ==
  /\ RetryInitWith({EmptyObj}, {-1})
  /\ StoreInitWith(SeedStores, CooldownConfigs)
  /\ FnIdle

SeqSpec == SeqInit /\ [][SeqNext]_vars

\* ------------------------------------------------------ extractRetryAfterMs
\* Fractions of a millisecond matter here, so every duration of this section
\* is counted in tenths of a millisecond: a value of s seconds is s * 10000.
TenthsPerMs == 10
\* A header value string: empty, a decimal number of seconds (what
\* /^\d+(\.\d+)?$/ matches), an HTTP-date Date.parse understands (its epoch
\* ms), or anything else.
EmptyString == [kind |-> "empty"]
Decimal(tenths) == [kind |-> "decimal", tenths |-> tenths]
HttpDate(ms) == [kind |-> "date", at |-> ms]
OtherString == [kind |-> "other"]
\* A header value: a string, or an array of strings.
Single(str) == [isArray |-> FALSE, items |-> <<str>>]
Array(strs) == [isArray |-> TRUE, items |-> strs]
\* k.toLowerCase() for the header names used
LowerCase(k) == IF k = "Retry-After" THEN "retry-after" ELSE k
\* `!error || typeof error !== "object"`
NotAnObject == [primitive |-> TRUE]

extractRetryAfterMs(error, clock) ==
  IF Has(error, "primitive") THEN Null
  ELSE
    LET record == error
        retryKeys == IF Has(record, "headers")
                     THEN {k \in DOMAIN record.headers : LowerCase(k) = "retry-after"}
                     ELSE {}
        fromHeader ==
          IF retryKeys = {} THEN [hit |-> FALSE]
          ELSE LET val == record.headers[CHOOSE k \in retryKeys : TRUE]
                   valStr == IF val.items = <<>> THEN EmptyString ELSE val.items[1]
               IN IF valStr.kind = "decimal"
                  THEN [hit |-> TRUE,
                        value |-> ((valStr.tenths + TenthsPerMs - 1) \div TenthsPerMs)
                                    * TenthsPerMs]
                  ELSE IF valStr.kind = "date"
                  THEN LET delta == valStr.at - clock IN
                       [hit |-> TRUE,
                        value |-> (IF delta > 0 THEN delta ELSE 0) * TenthsPerMs]
                  ELSE [hit |-> FALSE]
    IN IF fromHeader.hit THEN Some(fromHeader.value)
       ELSE IF Has(record, "retryAfter") THEN Some(record.retryAfter)
       ELSE IF Has(record, "retry_after") THEN Some(record.retry_after)
       ELSE Null

\* Errors the function is called with: header values of each kind, alone or
\* in an array, under either spelling of the name; direct properties of -1 s,
\* 0 s, 0.0005 s, 1.5 s and 2 s.
HeaderStrings ==
  {EmptyString, OtherString, Decimal(0), Decimal(15000), Decimal(5), Decimal(20001),
   HttpDate(StartTime - 5000), HttpDate(StartTime + 3000)}
HeaderValues ==
  {Single(str) : str \in HeaderStrings} \cup {Array(<<>>)}
    \cup {Array(<<str, Decimal(70000)>>) : str \in {Decimal(15000), OtherString}}
DirectSeconds == {0 - 10000, 0, 5, 15000, 20000}
ThrownErrors ==
  {NotAnObject, EmptyObj}
    \cup {Merge(h, d) :
            h \in {EmptyObj} \cup {[headers |-> EmptyObj]}
                  \cup {[headers |-> [k \in {name} |-> v]] :
                          name \in {"Retry-After", "retry-after"}, v \in HeaderValues},
            d \in {EmptyObj} \cup {[retryAfter |-> s] : s \in DirectSeconds}
                  \cup {[retry_after |-> s] : s \in {0 - 10000, 5, 20000}}}

\* extractRetryAfterMs(error)
CallExtractRetryAfterMs(error) ==
  /\ fnIn' = [fn |-> "extractRetryAfterMs", error |-> error]
  /\ fnOut' = [fn |-> "extractRetryAfterMs", value |-> extractRetryAfterMs(error, now)]
  /\ UNCHANGED <<now, retryVars, storeVars>>
\* ------------------------------------------- pure functions called directly

\* Timestamps a stats entry read from the file may carry (absent, negative,
\* zero, positive), and the clock values queries are made at.
ProfileStamps == {Null, Some(-5), Some(0), Some(StartTime + 5), Some(StartTime + 20)}
DisabledStamps == {Null, Some(StartTime + 15)}
ModelStamps == {Null, Some(-5), Some(0), Some(StartTime + 25)}
QueryTimes == {StartTime, StartTime + 10, StartTime + 30}
QueryStats ==
  {Merge(OptField("cooldownUntil", c), Merge(OptField("disabledUntil", d), ms)) :
     c \in ProfileStamps, d \in DisabledStamps,
     ms \in {EmptyObj} \cup
            {[modelStats |-> [m1 |-> OptField("cooldownUntil", m)]] : m \in ModelStamps}}
QueryStores == {BaseStore} \cup {PutStats(BaseStore, "p1", st) : st \in QueryStats}

\* isProfileInCooldown(store, profileId, modelId), Date.now() returning clock.
QueryCooldown(store, profileId, modelId, clock) ==
  /\ clock >= now
  /\ now' = clock
  /\ fnIn' = [fn |-> "isProfileInCooldown", store |-> store, profileId |-> profileId,
              modelId |-> modelId]
  /\ fnOut' = [fn |-> "isProfileInCooldown",
               value |-> isProfileInCooldown(store, profileId, modelId, clock)]
  /\ UNCHANGED <<retryVars, storeVars>>

\* resolveProfileUnusableUntilForDisplay(store, profileId, modelId)
QueryUnusableUntil(store, profileId, modelId) ==
  /\ fnIn' = [fn |-> "resolveProfileUnusableUntil", store |-> store,
              profileId |-> profileId, modelId |-> modelId]
  /\ fnOut' = [fn |-> "resolveProfileUnusableUntil",
               value |-> resolveProfileUnusableUntilForDisplay(store, profileId, modelId)]
  /\ UNCHANGED <<now, retryVars, storeVars>>

\* calculateAuthProfileCooldownMs(errorCount)
CallCooldownMs(n) ==
  /\ fnIn' = [fn |-> "calculateAuthProfileCooldownMs", errorCount |-> n]
  /\ fnOut' = [fn |-> "calculateAuthProfileCooldownMs",
               value |-> calculateAuthProfileCooldownMs(n)]
  /\ UNCHANGED <<now, retryVars, storeVars>>

FnInit ==
  /\ RetryInitWith({EmptyObj}, {-1}) /\ StoreInitWith({BaseStore}, {Null})
  /\ FnIdle

FnNext ==
  \/ \E store \in QueryStores, m \in {"", "m1", "m2"}, clock \in QueryTimes :
       QueryCooldown(store, "p1", m, clock)
  \/ \E store \in QueryStores, m \in {"", "m1", "m2"} :
       QueryUnusableUntil(store, "p1", m)
  \/ \E n \in (0 - 2) .. MaxErrorCount : CallCooldownMs(n)
  \/ \E error \in ThrownErrors : CallExtractRetryAfterMs(error)

FnSpec == FnInit /\ [][FnNext]_vars
\* ------------------------------------------- one profile failing repeatedly

\* Failures that take the profile-wide branch, with no retry-after hint, half
\* a minute or a minute apart, on a profile that starts with no stats.
StreakOps ==
  {FailureOp("p1", r, "", Null) : r \in {"auth", "format", "unknown", "rate_limit", "timeout"}}
    \cup {FailureOp("p1", "auth", "m1", Null)}
StreakElapsed == {30000, 60000}

StreakInit ==
  /\ RetryInitWith({EmptyObj}, {-1})
  /\ StoreInitWith({BaseStore}, CooldownConfigs)
  /\ FnIdle

StreakNext ==
  \/ \E op \in StreakOps, elapsed \in StreakElapsed :
       calls["t1"] < MaxStreak /\ Call("t1", op, elapsed)
  \/ Acquire("t1")
  \/ Commit("t1")
  \/ Finish("t1")

StreakSpec == StreakInit /\ [][StreakNext]_vars
\* ------------------------------------------- one profile failing on billing

\* Billing failures with and without a model and a retry-after hint, an hour
\* or just over a day apart.
BillingOps == {FailureOp("p1", "billing", "", Null), FailureOp("p1", "billing", "m1", Some(5000))}
BillingElapsed == {HourMs, 24 * HourMs + 1}

BillingInit ==
  /\ RetryInitWith({EmptyObj}, {-1})
  /\ StoreInitWith({BaseStore, PutStats(BaseStore, "p1", SeedStatsBusy)}, BillingConfigs)
  /\ FnIdle

BillingNext ==
  \/ \E op \in BillingOps, elapsed \in BillingElapsed :
       calls["t1"] < MaxStreak /\ Call("t1", op, elapsed)
  \/ Acquire("t1")
  \/ Commit("t1")
  \/ Finish("t1")

BillingSpec == BillingInit /\ [][BillingNext]_vars
\* ------------------------------------- one profile's cooldown under failures

\* Profile-wide failures without a hint, with a short and with a two-hour
\* retry-after hint, a billing failure, a success and a clear; half a minute,
\* just over an hour or just over a day apart, on a fresh profile and on one
\* that is cooling down.
CooldownOps ==
  {FailureOp("p1", "auth", "", Null),
   FailureOp("p1", "rate_limit", "", Null),
   FailureOp("p1", "rate_limit", "", Some(2 * HourMs)),
   FailureOp("p1", "timeout", "", Some(5000)),
   FailureOp("p1", "billing", "", Null),
   UsedOp("p1", ""),
   ClearOp("p1", "")}
CooldownElapsed == {30000, HourMs + 1, 24 * HourMs + 1}

CooldownInit ==
  /\ RetryInitWith({EmptyObj}, {-1})
  /\ StoreInitWith({BaseStore, PutStats(BaseStore, "p1", SeedStatsBusy)}, CooldownConfigs)
  /\ FnIdle

CooldownNext ==
  \/ \E op \in CooldownOps, elapsed \in CooldownElapsed :
       calls["t1"] < MaxCooldownCalls /\ Call("t1", op, elapsed)
  \/ Acquire("t1")
  \/ Commit("t1")
  \/ Finish("t1")

CooldownSpec == CooldownInit /\ [][CooldownNext]_vars
\* ======================================================= claims: the driver
\* A FailoverError whose failoverReason is rate_limit or timeout.
IsQuotaFailover(e) ==
  e.name = "FailoverError" /\ (e.failoverReason = "rate_limit" \/ e.failoverReason = "timeout")
LastOf(seq) == seq[Len(seq)]

\* C1: an error thrown by execute leads to the wait-and-retry path only when
\* it is a FailoverError with reason rate_limit or timeout; any other error
\* (FailoverError billing/auth/format/unknown, or a non-FailoverError) is
\* propagated as the same error at once: no onQuotaExhaustion call or
\* warning, no sleep, no further execute, and the driver stays ended.
C1_OnlyQuotaFailoverRetries ==
  [][ /\ (pc = "executing" /\ pc' = "sleepCall") => IsQuotaFailover(caught')
      /\ (pc = "executing" /\ caught' # NoError /\ ~IsQuotaFailover(caught')) =>
            /\ pc' = "thrown"
            /\ outcome' = Rethrown(caught')
            /\ quotaLog' = quotaLog
            /\ sleepCalls' = sleepCalls
            /\ executeCount' = executeCount
      /\ pc \in Terminal =>
            UNCHANGED <<pc, outcome, quotaLog, sleepCalls, executeCount, timerPending>>
    ]_vars
C1_Witness ==
  /\ pc = "thrown"
  /\ ~aborted
  /\ caught = [name |-> "FailoverError", failoverReason |-> "billing"]
  /\ outcome = Rethrown(caught)
  /\ executeCount = 2
  /\ Len(quotaLog) = 1

\* C2 (as stated): once the signal is aborted the driver never completes
\* with a result, and however it ends it ends with a cancellation error.
C2_Original ==
  (pc \in Terminal /\ aborted) => outcome.kind = "cancel"
\* C2 (amended): once the signal is aborted execute is never invoked again;
\* the check at the top of the loop and sleepWithAbort (on entry, or woken
\* by the abort) raise a cancellation error; an execute that was already
\* running ends the driver with whatever it produced: its error untouched, or
\* its result.
C2_AbortEndsDriver ==
  [][ /\ aborted => executeCount' = executeCount
      /\ (aborted /\ pc = "top" /\ pc' # pc) =>
            (pc' = "thrown" /\ outcome' = CancelError("Task aborted by user"))
      /\ (aborted /\ pc = "sleepCall" /\ pc' # pc) =>
            (pc' = "thrown" /\ outcome' = CancelError("Task aborted"))
      /\ (~aborted /\ aborted' /\ pc = "sleeping") =>
            (pc' = "thrown" /\ outcome' = CancelError("Task aborted during cooldown wait"))
      /\ (aborted /\ pc = "executing" /\ caught' # NoError) =>
            (pc' = "thrown" /\ outcome' = Rethrown(caught'))
      /\ (aborted /\ pc = "executing" /\ pc' # pc /\ caught' = NoError) =>
            (pc' = "returned" /\ outcome' = Returned("ok"))
      /\ aborted => pc' \notin {"sleeping", "woken"}
    ]_vars
C2_Witness ==
  /\ aborted
  /\ abortedAt = "woken"
  /\ pc = "thrown"
  /\ outcome = CancelError("Task aborted by user")
  /\ executeCount = 1

\* C3: when the signal is aborted while the driver is about to enter, is in,
\* or has just been woken from a cooldown sleep, execute is not invoked again
\* and the driver can only end with a cancellation error.
C3_AbortInCooldownStopsRetry ==
  abortedAt \in {"sleepCall", "sleeping", "woken"} =>
    /\ executeCount = execsAtAbort
    /\ pc \notin {"executing", "sleeping", "returned"}
    /\ pc \in Terminal => outcome.kind = "cancel"
    /\ abortedAt = "sleeping" =>
         (pc = "thrown" /\ outcome = CancelError("Task aborted during cooldown wait"))
    /\ ~timerPending /\ ~listenerOn
C3_Witness ==
  /\ abortedAt = "sleeping"
  /\ pc = "thrown"
  /\ outcome = CancelError("Task aborted during cooldown wait")
  /\ executeCount = 2
  /\ sleepCalls = 2

\* C4: no retry budget. With execute failing `plan` times with
\* rate_limit/timeout and then succeeding, no abort, and timers firing, the
\* driver eventually returns the success after exactly plan + 1 invocations
\* of execute, and it ends in no other way and no earlier.
C4_RetriesUntilSuccess ==
  /\ <>(pc = "returned" /\ outcome = Returned("ok") /\ executeCount = plan + 1)
  /\ [](pc \in Terminal => (pc = "returned" /\ executeCount = plan + 1))
  /\ [](pc \notin Terminal => executeCount <= plan + 1)
C4_Witness ==
  /\ pc = "returned"
  /\ plan = 3
  /\ executeCount = 4
  /\ sleepCalls = 3

\* The timestamps that make a profile unusable for a model: the profile's
\* cooldownUntil and disabledUntil and the model's cooldownUntil.
UnusableTimes(store, profileId, modelId) ==
  IF ~Has(store, "usageStats") \/ profileId \notin DOMAIN store.usageStats THEN {}
  ELSE LET st == store.usageStats[profileId] IN
       {st[f] : f \in {"cooldownUntil", "disabledUntil"} \cap DOMAIN st}
         \cup (IF Has(st, "modelStats") /\ modelId \in DOMAIN st.modelStats
                  /\ Has(st.modelStats[modelId], "cooldownUntil")
               THEN {st.modelStats[modelId].cooldownUntil} ELSE {})
EligibleAt(store, profileId, modelId, t) ==
  \A u \in UnusableTimes(store, profileId, modelId) : u <= t
WaitInputsProvided == {"authStore", "profileCandidates", "modelId"} \subseteq DOMAIN params
NamedCandidates ==
  {params.profileCandidates[i] : i \in DOMAIN params.profileCandidates} \ {""}

\* C5: the wait after a qualifying failure is, when store, candidates and
\* model are all given, 0 if some candidate is eligible for the model and
\* otherwise the smallest (unusable-until - now) over the candidates (0 when
\* no candidate is named); it is 60000 when one of the three is missing.  It
\* is never negative, and a computed wait is positive only if every candidate
\* is in cooldown for the model.
C5_WaitIsMinimumCooldown ==
  pc = "sleepCall" =>
    /\ waitMs >= 0
    /\ ~WaitInputsProvided => waitMs = 60000
    /\ WaitInputsProvided =>
         LET S == params.authStore
             M == params.modelId
         IN /\ (\E c \in NamedCandidates : EligibleAt(S, c, M, now)) => waitMs = 0
            /\ NamedCandidates = {} => waitMs = 0
            /\ (NamedCandidates # {} /\ \A c \in NamedCandidates : ~EligibleAt(S, c, M, now)) =>
                 waitMs = SetMin({SetMax(UnusableTimes(S, c, M)) - now : c \in NamedCandidates})
            /\ waitMs > 0 => \A c \in NamedCandidates : ~EligibleAt(S, c, M, now)
C5_Witness ==
  /\ pc = "sleepCall"
  /\ WaitInputsProvided
  /\ Len(params.profileCandidates) = 2
  /\ Cardinality(NamedCandidates) = 2
  /\ waitMs > 0
  /\ waitMs < 60000
  /\ executeCount = 1

\* C6 (as stated): every rate_limit/timeout failure of execute is followed
\* by exactly one onQuotaExhaustion call or warning.
C6_Original ==
  [][ (pc = "executing" /\ IsQuotaFailover(caught')) =>
        Len(quotaLog') = Len(quotaLog) + 1 ]_vars
\* C6 (amended): every rate_limit/timeout failure caught while the signal is
\* not aborted is notified exactly once (onQuotaExhaustion, or one warning
\* when there is no callback), before the sleep starts and before the next
\* execute, with attempt equal to the number of execute invocations so far;
\* nothing else notifies.
C6_OneNotificationPerRetry ==
  [][ /\ (pc = "executing" /\ IsQuotaFailover(caught') /\ ~aborted) =>
            /\ Len(quotaLog') = Len(quotaLog) + 1
            /\ SubSeq(quotaLog', 1, Len(quotaLog)) = quotaLog
            /\ LastOf(quotaLog').attempt = executeCount
            /\ LastOf(quotaLog').via =
                 (IF Has(params, "onQuotaExhaustion") THEN "onQuotaExhaustion" ELSE "log.warn")
            /\ sleepCalls' = sleepCalls /\ sleepCalls = Len(quotaLog)
            /\ executeCount' = executeCount
      /\ ~(pc = "executing" /\ IsQuotaFailover(caught') /\ ~aborted) => quotaLog' = quotaLog
      /\ sleepCalls' # sleepCalls => (sleepCalls' = sleepCalls + 1 /\ Len(quotaLog) = sleepCalls')
      /\ executeCount' # executeCount =>
            (executeCount' = executeCount + 1 /\ Len(quotaLog) = executeCount)
      /\ pc' = "returned" => attempt' = Len(quotaLog') + 1
    ]_vars
C6_Witness ==
  /\ pc = "returned"
  /\ attempt = 2
  /\ Len(quotaLog) = 1
  /\ quotaLog[1].attempt = 1
  /\ quotaLog[1].via = "onQuotaExhaustion"
  /\ ~aborted

\* ---------------------------------------------------------------------------
\* The usage-stat store under concurrent callers

\* The tasks that have called, and whether a task's one call has been settled
\* by the locked updater: committed, or declined without a later write.
C7Called == {t \in Tasks : calls[t] > 0}
C7Settled(t) ==
  /\ calls[t] = 1
  /\ \/ tpc[t] = "returned"
     \/ tpc[t] = "idle" /\ tpath[t] \in {"locked", "noop"}
\* One call applied alone to a store, at the time its updater ran.
C7Apply(store, op, clock) ==
  LET r == IF op.kind = "used" THEN usedUpdater(store, op, clock)
           ELSE IF op.kind = "failure" THEN failureUpdater(store, op, clock, cfg)
           ELSE clearUpdater(store, op)
  IN IF r = Null THEN store ELSE ValueOf(r)
C7Orders ==
  {o \in [1..Cardinality(C7Called) -> C7Called] :
     \A i, j \in DOMAIN o : o[i] = o[j] => i = j}
RECURSIVE C7Replay(_, _, _)
C7Replay(store, o, i) ==
  IF i \notin DOMAIN o THEN store
  ELSE C7Replay(C7Apply(store, top[o[i]], tclock[o[i]]), o, i + 1)
C7BothFailProfileWide ==
  \A t \in Tasks : calls[t] = 1 /\ top[t] = FailureOp("p1", "rate_limit", "", Null)

\* C7: concurrent markUsed / markFailure / clearCooldown calls that go through
\* the locked updater leave the file as some one-after-another execution of
\* the same calls would; in particular two concurrent profile-wide failures on
\* a profile with no stats end with errorCount 2, not 1.
C7_LockedUpdatesSerialize ==
  (deleted = {} /\ C7Called # {} /\ \A t \in C7Called : C7Settled(t)) =>
    /\ \E o \in C7Orders : C7Replay(disk0, o, 1) = disk
    /\ (C7BothFailProfileWide /\ StatsOf(disk0, "p1") = Null) =>
         disk.usageStats["p1"].errorCount = 2

\* Both tasks' failures on p1 have been committed while neither call has
\* returned to its caller yet: the two calls overlapped.
C7_Witness ==
  /\ C7BothFailProfileWide
  /\ \A t \in Tasks : tpc[t] = "returned" /\ updated[t] # Null
  /\ StatsOf(disk0, "p1") = Null
  /\ deleted = {}
  /\ disk.usageStats["p1"].errorCount = 2

\* ---------------------------------------------------------------------------
\* Effects of the three mutators on one profile's usage stats

\* The step in which task t's call writes: the locked updater committing, or
\* the in-memory fallback; and the store it read and the store it wrote.
StoreStep(t, kind) ==
  /\ top[t].kind = kind
  /\ \/ tpc[t] = "locked" /\ tpc'[t] = "returned" /\ updated'[t] # Null
     \/ tpc[t] = "returned" /\ tpc'[t] = "idle" /\ tpath'[t] = "fallback"
StoreBefore(t) == IF tpc[t] = "locked" THEN fresh[t] ELSE mem[t]
StoreAfter(t) == IF tpc[t] = "locked" THEN disk' ELSE mem'[t]
\* The call returning to its caller having written, by either path.
Completes(t, kind) ==
  /\ top[t].kind = kind
  /\ tpc[t] = "returned" /\ tpc'[t] = "idle" /\ tpath'[t] # "noop"
StatsIn(store, profileId) ==
  IF Has(store, "usageStats") /\ profileId \in DOMAIN store.usageStats
  THEN store.usageStats[profileId] ELSE EmptyObj
ModelEntries(stats) == IF Has(stats, "modelStats") THEN stats.modelStats ELSE EmptyObj
SameField(a, b, f) == (Has(a, f) <=> Has(b, f)) /\ (Has(a, f) => a[f] = b[f])
ProfileWideFields ==
  {"errorCount", "cooldownUntil", "disabledUntil", "disabledReason", "failureCounts",
   "lastFailureAt", "lastUsed"}

\* What a success leaves for profile P (and model M) in `store` at time `clock`.
C8Reset(store, P, M, clock) ==
  LET st == StatsIn(store, P) IN
  /\ EligibleAt(store, P, "", clock)
  /\ Has(st, "errorCount") /\ st.errorCount = 0
  /\ DOMAIN st \cap {"cooldownUntil", "disabledUntil", "disabledReason", "failureCounts"} = {}
  /\ Has(st, "lastUsed") /\ st.lastUsed = clock
  /\ M # "" =>
       /\ M \in DOMAIN ModelEntries(st)
       /\ LET e == ModelEntries(st)[M] IN
            /\ Has(e, "errorCount") /\ e.errorCount = 0
            /\ ~Has(e, "cooldownUntil")
            /\ Has(e, "lastUsed") /\ e.lastUsed = clock
       /\ EligibleAt(store, P, M, clock)

\* C8: when markUsed(P) writes, and when it returns to its caller, P is not in
\* cooldown and has errorCount 0, no cooldownUntil, disabledUntil,
\* disabledReason or failureCounts, and lastUsed = now; with a model M,
\* modelStats[M] has errorCount 0, no cooldownUntil and lastUsed set, and P is
\* not in cooldown for M either.
C8_UsedResetsProfile ==
  [][\A t \in Tasks :
       /\ StoreStep(t, "used") =>
            C8Reset(StoreAfter(t), top[t].profileId, top[t].modelId, now)
       /\ Completes(t, "used") =>
            C8Reset(mem'[t], top[t].profileId, top[t].modelId, now)]_vars

\* A success for p1 and m1 has returned, after a failure recorded profile-wide
\* earlier in the same run.
C8_Witness ==
  /\ calls["t1"] = 2 /\ tpc["t1"] = "idle" /\ tpath["t1"] = "locked"
  /\ top["t1"] = UsedOp("p1", "m1")
  /\ LET st == StatsIn(mem["t1"], "p1") IN
       /\ Has(st, "lastFailureAt") /\ st.lastFailureAt > StartTime
       /\ st.errorCount = 0 /\ st.modelStats["m1"].errorCount = 0

\* The cooldown after the n-th consecutive failure: 1 min, 5 min, 25 min, 1 h.
C9Backoff(n) == IF n = 1 THEN 60000 ELSE IF n = 2 THEN 300000
                ELSE IF n = 3 THEN 1500000 ELSE 3600000

\* C9: a markFailure with reason rate_limit or timeout and a model M changes
\* only modelStats[M] of the profile: errorCount + 1, cooldownUntil = now +
\* backoff (the retry-after hint when given), lastFailureAt = now; every other
\* model's stats and the profile-wide fields are as before, and every other
\* model is exactly as eligible as before.
C9_ModelFailureTouchesOnlyModel ==
  [][\A t \in Tasks :
       (/\ StoreStep(t, "failure")
        /\ top[t].reason \in {"rate_limit", "timeout"}
        /\ top[t].modelId # "") =>
         LET P == top[t].profileId
             M == top[t].modelId
             before == StatsIn(StoreBefore(t), P)
             after == StatsIn(StoreAfter(t), P)
             was == IF M \in DOMAIN ModelEntries(before)
                    THEN ModelEntries(before)[M] ELSE EmptyObj
         IN /\ M \in DOMAIN ModelEntries(after)
            /\ LET e == ModelEntries(after)[M] IN
                 /\ e.errorCount = (IF Has(was, "errorCount") THEN was.errorCount ELSE 0) + 1
                 /\ e.cooldownUntil =
                      now + (IF top[t].retryAfterMs # Null THEN ValueOf(top[t].retryAfterMs)
                             ELSE C9Backoff(e.errorCount))
                 /\ e.lastFailureAt = now
            /\ \A f \in ProfileWideFields : SameField(before, after, f)
            /\ \A m \in Models \ {M} :
                 /\ SameField(ModelEntries(before), ModelEntries(after), m)
                 /\ EligibleAt(StoreAfter(t), P, m, now)
                      <=> EligibleAt(StoreBefore(t), P, m, now)]_vars

\* Two rate-limit failures of p1 on m1 in a row have been recorded; the
\* profile-wide counter is still what it was.
C9_Witness ==
  /\ calls["t1"] = 2 /\ tpc["t1"] = "idle" /\ tpath["t1"] = "locked"
  /\ top["t1"] = FailureOp("p1", "rate_limit", "m1", Null)
  /\ LET st == StatsIn(mem["t1"], "p1") IN
       /\ Has(st, "modelStats") /\ Has(st.modelStats, "m1")
       /\ st.modelStats["m1"].errorCount = 2
       /\ st.modelStats["m1"].cooldownUntil = now + 300000
       /\ SameField(StatsIn(disk0, "p1"), st, "errorCount")

\* C10: clearCooldown(P) sets the profile-wide errorCount to 0 and removes
\* cooldownUntil and changes nothing else of P's stats (disabledUntil,
\* disabledReason, failureCounts, modelStats, lastUsed and lastFailureAt are as
\* before); clearCooldown(P, M) does the same to modelStats[M] only, when that
\* entry exists, and changes no profile-wide field and no other model's stats.
C10_ClearResetsOnlyCooldown ==
  [][\A t \in Tasks :
       StoreStep(t, "clear") =>
         LET P == top[t].profileId
             M == top[t].modelId
             before == StatsIn(StoreBefore(t), P)
             after == StatsIn(StoreAfter(t), P)
         IN IF M = ""
            THEN /\ Has(after, "errorCount") /\ after.errorCount = 0
                 /\ ~Has(after, "cooldownUntil")
                 /\ \A f \in (ProfileWideFields \cup {"modelStats"})
                               \ {"errorCount", "cooldownUntil"} :
                      SameField(before, after, f)
            ELSE /\ \A f \in ProfileWideFields : SameField(before, after, f)
                 /\ \A m \in Models \ {M} :
                      SameField(ModelEntries(before), ModelEntries(after), m)
                 /\ IF M \in DOMAIN ModelEntries(before)
                    THEN LET was == ModelEntries(before)[M]
                             e == ModelEntries(after)[M]
                         IN /\ Has(e, "errorCount") /\ e.errorCount = 0
                            /\ ~Has(e, "cooldownUntil")
                            /\ \A f \in {"lastUsed", "lastFailureAt"} : SameField(was, e, f)
                    ELSE after = before]_vars

\* A billing-disabled p1 in cooldown has been cleared without a model: the
\* cooldown is gone and the profile is still disabled.
C10_Witness ==
  /\ calls["t1"] = 1 /\ tpc["t1"] = "idle" /\ tpath["t1"] = "locked"
  /\ top["t1"] = ClearOp("p1", "")
  /\ Has(StatsIn(disk0, "p1"), "cooldownUntil")
  /\ LET st == StatsIn(mem["t1"], "p1") IN
       /\ st.errorCount = 0 /\ ~Has(st, "cooldownUntil")
       /\ Has(st, "disabledUntil") /\ st.disabledUntil > now
       /\ st.disabledReason = "billing"
       /\ ~EligibleAt(mem["t1"], "p1", "", now)

\* ---------------------------------------------------------------------------
\* Failure window, retry-after hint

\* A failure that takes the profile-wide cooldown branch.
ProfileWideFailure(op) ==
  /\ op.kind = "failure" /\ op.reason # "billing"
  /\ ~(op.modelId # "" /\ op.reason \in {"rate_limit", "timeout"})
\* The configured failure window.
FailureWindowMs ==
  IF cfg # Null /\ Has(ValueOf(cfg), "failureWindowHours")
  THEN ValueOf(cfg).failureWindowHours * 3600000 ELSE 24 * 3600000

\* C11: a profile-wide failure on a profile whose lastFailureAt is older than
\* the failure window leaves errorCount 1 whatever it was, and cooldownUntil =
\* now + 60000 when no retryAfterMs is given; inside the window (or with no
\* lastFailureAt) it leaves the prior errorCount + 1.
C11_WindowExpiryResetsCount ==
  [][\A t \in Tasks :
       (StoreStep(t, "failure") /\ ProfileWideFailure(top[t])) =>
         LET before == StatsIn(StoreBefore(t), top[t].profileId)
             after == StatsIn(StoreAfter(t), top[t].profileId)
             prior == IF Has(before, "errorCount") THEN before.errorCount ELSE 0
         IN IF Has(before, "lastFailureAt") /\ now - before.lastFailureAt > FailureWindowMs
            THEN /\ after.errorCount = 1
                 /\ top[t].retryAfterMs = Null => after.cooldownUntil = now + 60000
            ELSE after.errorCount = prior + 1]_vars

\* p1, seeded with errorCount 2, failed again more than a day later.
C11_Witness ==
  /\ calls["t1"] = 1 /\ tpc["t1"] = "idle" /\ tpath["t1"] = "locked"
  /\ top["t1"] = FailureOp("p1", "rate_limit", "", Null)
  /\ Has(StatsIn(disk0, "p1"), "errorCount") /\ StatsIn(disk0, "p1").errorCount = 2
  /\ now - StatsIn(disk0, "p1").lastFailureAt > FailureWindowMs
  /\ StatsIn(mem["t1"], "p1").errorCount = 1
  /\ StatsIn(mem["t1"], "p1").cooldownUntil = now + 60000

\* C12: a rate_limit or timeout failure given retryAfterMs sets the cooldown
\* it writes (modelStats[M].cooldownUntil with a model, the profile-wide
\* cooldownUntil without) to exactly now + retryAfterMs, 0 included, whatever
\* the error count; given none it sets now + the backoff computed from the new
\* error count.
C12_RetryAfterOverridesBackoff ==
  [][\A t \in Tasks :
       (StoreStep(t, "failure") /\ top[t].reason \in {"rate_limit", "timeout"}) =>
         LET after == StatsIn(StoreAfter(t), top[t].profileId)
             target == IF top[t].modelId # "" THEN ModelEntries(after)[top[t].modelId]
                       ELSE after
         IN IF top[t].retryAfterMs # Null
            THEN \E ms \in top[t].retryAfterMs : target.cooldownUntil = now + ms
            ELSE target.cooldownUntil = now + C9Backoff(target.errorCount)]_vars

\* A timeout on m2 with retryAfterMs 0, the second failure of that model:
\* the model's cooldown ends at once.
C12_Witness ==
  /\ tpc["t1"] = "idle" /\ tpath["t1"] = "locked"
  /\ top["t1"] = FailureOp("p1", "timeout", "m2", Some(0))
  /\ LET e == ModelEntries(StatsIn(mem["t1"], "p1")) IN
       /\ "m2" \in DOMAIN e
       /\ e["m2"].errorCount = 2
       /\ e["m2"].cooldownUntil = now

\* ---------------------------------------------------------------------------
\* The eligibility oracle

\* The three timestamps the oracle looks at, as far as they are present.
C13Stamps(store, P, M) ==
  LET st == StatsIn(store, P) IN
  {st[f] : f \in {"cooldownUntil", "disabledUntil"} \cap DOMAIN st}
    \cup (IF M # "" /\ M \in DOMAIN ModelEntries(st)
             /\ Has(ModelEntries(st)[M], "cooldownUntil")
          THEN {ModelEntries(st)[M].cooldownUntil} ELSE {})
\* Their maximum over the strictly positive ones, Null if there is none.
C13UnusableUntil(store, P, M) ==
  LET pos == {v \in C13Stamps(store, P, M) : v > 0} IN
  IF pos = {} THEN Null ELSE Some(CHOOSE v \in pos : \A w \in pos : w <= v)

\* C13 (as stated): resolveUnusableUntil returns the maximum of the present,
\* strictly positive cooldownUntil, disabledUntil and modelStats[M].cooldownUntil
\* (null if none); isInCooldown(P, M) is exactly "that maximum exceeds now",
\* which is "one of the three timestamps exceeds now"; a profile with no stats
\* is never in cooldown.
C13_Original ==
  /\ fnIn.fn = "resolveProfileUnusableUntil" =>
       fnOut.value = C13UnusableUntil(fnIn.store, fnIn.profileId, fnIn.modelId)
  /\ fnIn.fn = "isProfileInCooldown" =>
       LET until == C13UnusableUntil(fnIn.store, fnIn.profileId, fnIn.modelId)
           stamps == C13Stamps(fnIn.store, fnIn.profileId, fnIn.modelId)
       IN /\ fnOut.value <=> (until # Null /\ \A u \in until : u > now)
          /\ fnOut.value <=> (\E v \in stamps : v > now)
          /\ StatsOf(fnIn.store, fnIn.profileId) = Null => ~fnOut.value

\* ---------------------------------------------------------------------------
\* Calls for a missing profile

\* Task t's call names a profile that neither the file nor its own store holds.
C14Missing(t) ==
  /\ top[t].profileId \notin DOMAIN disk.profiles
  /\ top[t].profileId \notin DOMAIN mem[t].profiles

C15_CooldownBackoffMonotoneCapped ==
  fnIn.fn = "calculateAuthProfileCooldownMs" =>
    LET n == fnIn.errorCount
        v == fnOut.value
    IN /\ v <= 3600000
       /\ n <= 1 => v = 60000
       /\ n = 2 => v = 300000
       /\ n = 3 => v = 1500000
       /\ n >= 4 => v = 3600000
       /\ n >= 1 => v <= calculateAuthProfileCooldownMs(n + 1)
       /\ n <= 0 => v = calculateAuthProfileCooldownMs(1)

\* The function has been called with 5, past the point where the cap applies.
C15_Witness ==
  /\ fnIn.fn = "calculateAuthProfileCooldownMs"
  /\ fnIn.errorCount = 5
  /\ fnOut.value = 3600000

\* C16: after the k-th consecutive profile-wide failure of a profile, made at
\* time t inside the failure window and without retryAfterMs, its stats have
\* errorCount = k, lastFailureAt = t and cooldownUntil = t + 60000, 300000,
\* 1500000, 3600000 for k = 1, 2, 3 and k >= 4; the second of two failures
\* 30000 ms apart leaves cooldownUntil 330000 ms after the first.
C16_ConsecutiveFailuresBackOff ==
  (tpc["t1"] = "idle" /\ calls["t1"] >= 1) =>
    LET k == calls["t1"]
        st == StatsIn(disk, "p1")
    IN /\ Has(st, "errorCount") /\ st.errorCount = k
       /\ Has(st, "lastFailureAt") /\ st.lastFailureAt = tclock["t1"]
       /\ tclock["t1"] = now
       /\ Has(st, "cooldownUntil")
       /\ st.cooldownUntil = now + (IF k = 1 THEN 60000 ELSE IF k = 2 THEN 300000
                                    ELSE IF k = 3 THEN 1500000 ELSE 3600000)
       /\ StatsIn(mem["t1"], "p1") = st

\* Two failures 30000 ms apart: errorCount 2, cooldown until 330000 ms after
\* the first failure.
C16_Witness ==
  /\ tpc["t1"] = "idle" /\ calls["t1"] = 2
  /\ now = StartTime + 60000
  /\ StatsIn(disk, "p1").errorCount = 2
  /\ StatsIn(disk, "p1").cooldownUntil = (StartTime + 30000) + 330000

\* ---------------------------------------------------------------------------
\* Billing failures

\* The configured billing backoff and maximum, in ms.
C17BaseMs ==
  IF cfg = Null THEN 5 * 3600000
  ELSE IF Has(ValueOf(cfg), "billingBackoffHoursByProvider")
       THEN ValueOf(cfg).billingBackoffHoursByProvider["Anthropic"] * 3600000
       ELSE IF Has(ValueOf(cfg), "billingBackoffHours")
            THEN ValueOf(cfg).billingBackoffHours * 3600000 ELSE 5 * 3600000
C17MaxMs ==
  IF cfg # Null /\ Has(ValueOf(cfg), "billingMaxHours")
  THEN ValueOf(cfg).billingMaxHours * 3600000 ELSE 24 * 3600000
\* What a billing failure does apart from the length of the disable: the
\* billing count goes up by one from the counts kept (none once the window
\* has expired), the reason and lastFailureAt are set, and errorCount,
\* cooldownUntil, modelStats and lastUsed stay; `disable` is the claimed length.
C17Effect(t, disable(_)) ==
  LET before == StatsIn(StoreBefore(t), top[t].profileId)
      after == StatsIn(StoreAfter(t), top[t].profileId)
      expired == Has(before, "lastFailureAt") /\ now - before.lastFailureAt > FailureWindowMs
      kept == IF expired \/ ~Has(before, "failureCounts") THEN EmptyObj
              ELSE before.failureCounts
      count == (IF Has(kept, "billing") THEN kept.billing ELSE 0) + 1
  IN /\ DOMAIN after.failureCounts = DOMAIN kept \cup {"billing"}
     /\ after.failureCounts.billing = count
     /\ \A r \in DOMAIN kept \ {"billing"} : after.failureCounts[r] = kept[r]
     /\ after.disabledUntil = now + disable(count)
     /\ after.disabledReason = "billing"
     /\ after.lastFailureAt = now
     /\ \A f \in {"errorCount", "cooldownUntil", "modelStats", "lastUsed"} :
          SameField(before, after, f)
     /\ cfg = Null =>
          /\ after.disabledUntil - now <= 24 * 3600000
          /\ count = 1 => after.disabledUntil = now + 5 * 3600000
          /\ count = 2 => after.disabledUntil = now + 10 * 3600000
C17DisableAsStated(count) ==
  Min(C17MaxMs, Max(60000, C17BaseMs) * Pow(2, Min(count - 1, 10)))
C17DisableClamped(count) ==
  Min(Max(C17MaxMs, Max(60000, C17BaseMs)),
      Max(60000, C17BaseMs) * Pow(2, Min(count - 1, 10)))

\* C17 (as stated): a billing failure, with or without a model or a
\* retry-after hint, is profile-wide: failureCounts.billing + 1 (from empty
\* counts after the window expired), disabledUntil = now + min(maxMs,
\* max(60000, baseMs) * 2^min(count-1, 10)), disabledReason billing,
\* lastFailureAt = now, nothing else changed; 5h then 10h with the defaults,
\* never above 24h.
C17_Original ==
  [][\A t \in Tasks :
       (StoreStep(t, "failure") /\ top[t].reason = "billing") =>
         C17Effect(t, C17DisableAsStated)]_vars

\* C17 (amended): the same, with the maximum raised to at least
\* max(60000, baseMs) before it caps the disable.
C17_BillingDisablesProfile ==
  [][\A t \in Tasks :
       (StoreStep(t, "failure") /\ top[t].reason = "billing") =>
         C17Effect(t, C17DisableClamped)]_vars

\* The second billing failure of p1 inside the window, given a model and a
\* retry-after hint, under the defaults: disabled for 10h, nothing per-model.
C17_Witness ==
  /\ cfg = Null /\ disk0 = BaseStore
  /\ tpc["t1"] = "idle" /\ calls["t1"] = 2 /\ tpath["t1"] = "locked"
  /\ top["t1"] = FailureOp("p1", "billing", "m1", Some(5000))
  /\ LET st == StatsIn(mem["t1"], "p1") IN
       /\ st.failureCounts.billing = 2
       /\ st.disabledUntil = now + 10 * 3600000
       /\ DOMAIN st \cap {"modelStats", "cooldownUntil", "errorCount"} = {}

\* ---------------------------------------------------------------------------
\* The unlocked fallback

\* C18: for markUsed and markFailure the locked update comes back empty
\* exactly when the freshly read store has no such profile; if the caller's
\* in-memory store still has the profile, the call then updates that profile's
\* stats in the in-memory store and writes the whole in-memory store to the
\* file, whoever holds the lock and whatever the file held.
C18_FallbackWritesWholeMemoryStore ==
  [][\A t \in Tasks :
       top[t].kind \in {"used", "failure"} =>
         LET P == top[t].profileId IN
         /\ (tpc[t] = "locked" /\ tpc'[t] = "returned") =>
              (updated'[t] = Null <=> P \notin DOMAIN fresh[t].profiles)
         /\ (/\ tpc[t] = "returned" /\ tpc'[t] = "idle"
             /\ updated[t] = Null /\ P \in DOMAIN mem[t].profiles) =>
              /\ tpath'[t] = "fallback"
              /\ disk' = mem'[t]
              /\ StatsOf(mem'[t], P) # Null
              /\ mem'[t].profiles = mem[t].profiles
              /\ \A q \in Profiles \ {P} : StatsOf(mem'[t], q) = StatsOf(mem[t], q)]_vars

\* p1 was removed from the file and t2 recorded a failure of p2 under the
\* lock; t1, whose snapshot predates both, then marked p1 used: the file has
\* p1 and usage stats for it again, and t2's update is gone from it.
C18_Witness ==
  /\ "p1" \in deleted
  /\ tpc["t1"] = "idle" /\ tpath["t1"] = "fallback" /\ top["t1"] = UsedOp("p1", "")
  /\ tpc["t2"] = "idle" /\ tpath["t2"] = "locked" /\ top["t2"].profileId = "p2"
  /\ StatsOf(mem["t2"], "p2") # Null
  /\ StatsOf(disk, "p2") = Null
  /\ "p1" \in DOMAIN disk.profiles /\ StatsOf(disk, "p1") # Null
  /\ disk = mem["t1"]

\* ---------------------------------------------------------------------------
\* sleepWithAbort's resources

SleepSettled(s) == s \in {"resolved", "rejected"}

\* C19: whenever a sleepWithAbort call has settled (timer fired, abort during
\* the wait, or signal already aborted on entry) its abort listener is off the
\* signal and its timer is not pending; and once settled it stays as it
\* settled, with no listener or timer coming back, until the next call.
C19_SleepLeaksNothing ==
  [][/\ SleepSettled(sleepState') => (~listenerOn' /\ ~timerPending')
     /\ (SleepSettled(sleepState) /\ sleepCalls' = sleepCalls) =>
          (sleepState' = sleepState /\ ~listenerOn' /\ ~timerPending')]_vars

\* A first sleep ended by its timer, the second by an abort during the wait;
\* nothing is left registered.
C19_Witness ==
  /\ sleepCalls = 2
  /\ sleepState = "rejected"
  /\ abortedAt = "sleeping"
  /\ outcome = CancelError("Task aborted during cooldown wait")
  /\ ~listenerOn /\ ~timerPending

\* ---------------------------------------------------------------------------
\* The retry-after hint

\* C20 (as stated): extractRetryAfterMs returns nothing or a non-negative
\* whole number of milliseconds, whatever the error: a numeric header, an
\* HTTP-date header (0 for a past date), a numeric retryAfter / retry_after
\* in seconds, negative and fractional values included.
C20_Original ==
  fnIn.fn = "extractRetryAfterMs" =>
    \A v \in fnOut.value : v >= 0 /\ v % 10 = 0

\* ---------------------------------------------------------------------------
\* Other profiles' stats

\* A step of task t's call leaves every other profile's persisted stats alone.
C21Frame(t) ==
  \A q \in Profiles \ {top[t].profileId} : StatsOf(disk', q) = StatsOf(disk, q)

\* C21 (as stated): no step of a markUsed / markFailure / clearCooldown call
\* for profile P changes the persisted usageStats entry of another profile Q,
\* on the locked path and on the in-memory fallback path alike, whatever other
\* tasks did to Q in between.
C21_Original ==
  [][\A t \in Tasks : (tpc[t] # "idle" /\ tpc'[t] # tpc[t]) => C21Frame(t)]_vars

\* The part of C21 that the locked updater alone decides: the store written
\* under the lock carries every other profile's stats exactly as they were
\* read under the lock.
C21_LockedPathFrame ==
  [][\A t \in Tasks : (tpc[t] = "locked" /\ tpc'[t] = "returned" /\ updated'[t] # Null)
       => \A q \in Profiles \ {top[t].profileId} :
            StatsOf(disk', q) = StatsOf(fresh[t], q)]_vars


\* ---------------------------------------------------------------------------
\* Repeated failures and the existing cooldown

\* A profile-wide, non-billing markAuthProfileFailure without retryAfterMs
\* writes its stats, under a failure window of at least an hour.
C22Step(t) ==
  /\ StoreStep(t, "failure") /\ ProfileWideFailure(top[t])
  /\ top[t].retryAfterMs = Null
  /\ FailureWindowMs >= HourMs
\* The existing cooldown ends no later than the computed backoff after the
\* last recorded failure: it was not set from a longer retry-after hint.
C22WithinOwnBackoff(st) ==
  /\ Has(st, "lastFailureAt")
  /\ st.cooldownUntil <=
       st.lastFailureAt + calculateAuthProfileCooldownMs(GetOr(st, "errorCount", 0))

====
